---- MODULE Spec2Model ----
(***************************************************************************)
(* Model of bot/review.py: the prompt builder (build_prompt), the API      *)
(* client and response extractor (review_diff) and the CLI entrypoint      *)
(* (main).                                                                 *)
(*                                                                         *)
(* Text (a Python str) is a sequence of characters, each character a       *)
(* one-character string; the element "u2013" stands for the single         *)
(* character U+2013 of the prompt template.  Python values are tagged      *)
(* records: [t |-> "None"], [t |-> "str", v |-> text], [t |-> "int", ...], *)
(* [t |-> "bool", ...], [t |-> "list", v |-> sequence of values] and       *)
(* [t |-> "dict", v |-> sequence of <<key text, value>> in insertion       *)
(* order].                                                                 *)
(***************************************************************************)
EXTENDS Integers, Sequences, FiniteSets, TLC

VARIABLES
    pc,              \* position of the one thread of control
    caller,          \* "main" (the CLI), "lib" (review_diff called directly), "" before the call
    environ,         \* os.getenv("GITHUB_TOKEN"): PyNone when the variable is unset
    argv,            \* main's parameter argv
    file,            \* what _read_file met: NotRead, a raised exception or the text read
    calls,           \* number of calls of review_diff
    diff_text,       \* review_diff's parameter diff_text
    token_arg,       \* review_diff's parameter token as passed
    token,           \* review_diff's local token (reassigned at line 102)
    prompt,          \* the prompt built (review_diff's local prompt)
    posts,           \* the requests handed to requests.post, in order
    response,        \* review_diff's local response, NoResponse before
    json_calls,      \* number of calls of response.json()
    data,            \* review_diff's local data, NotSet before
    message_content, \* review_diff's local message_content, NotSet before
    result,          \* how review_diff ended: NoOutcome, a returned text or a raised exception
    exit,            \* how main ended: NoOutcome, a returned exit code or a raised exception
    stdout,          \* the texts printed to sys.stdout, in order
    stderr,          \* the texts printed to sys.stderr, in order
    d0               \* the diff text handed to build_prompt in the prompt-builder specification

vars == <<pc, caller, environ, argv, file, calls, diff_text, token_arg, token, prompt, posts,
          response, json_calls, data, message_content, result, exit, stdout, stderr, d0>>

----------------------------------------------------------------------------
(* Bounds of the model *)

\* longest diff text handed to review_diff or read from the diff file
MaxDiffLen == 2
\* longest diff text handed to build_prompt in the prompt-builder specification
MaxPromptDiffLen == 3

----------------------------------------------------------------------------
(* Python values *)

PyNone == [t |-> "None"]
PyStr(s) == [t |-> "str", v |-> s]
PyInt(n) == [t |-> "int", v |-> n]
PyBool(b) == [t |-> "bool", v |-> b]
PyList(xs) == [t |-> "list", v |-> xs]
PyDict(kvs) == [t |-> "dict", v |-> kvs]

\* bool(x) for the values review_diff tests: None and the empty str are falsy
Truthy(x) ==
    CASE x.t = "None" -> FALSE
      [] x.t = "str" -> Len(x.v) > 0
      [] x.t = "int" -> x.v # 0
      [] x.t = "bool" -> x.v
      [] OTHER -> Len(x.v) > 0

----------------------------------------------------------------------------
(* Text *)

\* the characters str.strip() removes, among those the model's texts use
PyWhitespace == {" ", "\t", "\n", "\r", "\f"}

\* str.strip(): the text without its leading and trailing whitespace
Strip(s) ==
    LET n == Len(s)
        a == CHOOSE i \in 1..(n + 1) :
                 /\ \A j \in 1..(i - 1) : s[j] \in PyWhitespace
                 /\ (i = n + 1 \/ s[i] \notin PyWhitespace)
        b == CHOOSE i \in 0..n :
                 /\ \A j \in (i + 1)..n : s[j] \in PyWhitespace
                 /\ (i = 0 \/ s[i] \notin PyWhitespace)
    IN  IF a > b THEN <<>> ELSE SubSeq(s, a, b)

\* all texts over the characters cs of length at most n
TextsUpTo(cs, n) == UNION {[1..k -> cs] : k \in 0..n}

----------------------------------------------------------------------------
(* build_prompt *)

\* the f-string of build_prompt up to the placeholder {diff_text}
PromptHead ==
    \* 46: the newline that follows the opening quotes
       <<"\n">>
    \* 47: You are an expert senior code and content reviewer.
    \o <<"Y","o","u"," ","a","r","e"," ","a","n"," ","e","x","p","e","r","t"," ","s","e","n","i","o","r"," ","c","o","d","e"," ","a","n","d"," ","c","o","n","t","e","n","t"," ","r","e","v","i","e","w","e","r",".","\n">>
    \* 48: You receive a unified Git diff. Your tasks are:
    \o <<"Y","o","u"," ","r","e","c","e","i","v","e"," ","a"," ","u","n","i","f","i","e","d"," ","G","i","t"," ","d","i","f","f","."," ","Y","o","u","r"," ","t","a","s","k","s"," ","a","r","e",":","\n">>
    \* 49: 
    \o <<"\n">>
    \* 50: 1. *Change Overview (what changed vs previous version)*
    \o <<"1","."," ","*","C","h","a","n","g","e"," ","O","v","e","r","v","i","e","w"," ","(","w","h","a","t"," ","c","h","a","n","g","e","d"," ","v","s"," ","p","r","e","v","i","o","u","s"," ","v","e","r","s","i","o","n",")","*","\n">>
    \* 51: - Provide a concise bullet list of the main changes.
    \o <<"-"," ","P","r","o","v","i","d","e"," ","a"," ","c","o","n","c","i","s","e"," ","b","u","l","l","e","t"," ","l","i","s","t"," ","o","f"," ","t","h","e"," ","m","a","i","n"," ","c","h","a","n","g","e","s",".","\n">>
    \* 52: - For each item, mention the file name and a short description.
    \o <<"-"," ","F","o","r"," ","e","a","c","h"," ","i","t","e","m",","," ","m","e","n","t","i","o","n"," ","t","h","e"," ","f","i","l","e"," ","n","a","m","e"," ","a","n","d"," ","a"," ","s","h","o","r","t"," ","d","e","s","c","r","i","p","t","i","o","n",".","\n">>
    \* 53: - Example: file.txt (u2013) new text file added containing a personal message.
    \o <<"-"," ","E","x","a","m","p","l","e",":"," ","f","i","l","e",".","t","x","t"," ","u2013"," ","n","e","w"," ","t","e","x","t"," ","f","i","l","e"," ","a","d","d","e","d"," ","c","o","n","t","a","i","n","i","n","g"," ","a"," ","p","e","r","s","o","n","a","l"," ","m","e","s","s","a","g","e",".","\n">>
    \* 54: 
    \o <<"\n">>
    \* 55: 2. *Detailed Diff Explanation (before vs after)*
    \o <<"2","."," ","*","D","e","t","a","i","l","e","d"," ","D","i","f","f"," ","E","x","p","l","a","n","a","t","i","o","n"," ","(","b","e","f","o","r","e"," ","v","s"," ","a","f","t","e","r",")","*","\n">>
    \* 56: - For each file in the diff, explain what changed compared to the previous version:
    \o <<"-"," ","F","o","r"," ","e","a","c","h"," ","f","i","l","e"," ","i","n"," ","t","h","e"," ","d","i","f","f",","," ","e","x","p","l","a","i","n"," ","w","h","a","t"," ","c","h","a","n","g","e","d"," ","c","o","m","p","a","r","e","d"," ","t","o"," ","t","h","e"," ","p","r","e","v","i","o","u","s"," ","v","e","r","s","i","o","n",":","\n">>
    \* 57:     - What was added?
    \o <<" "," "," "," ","-"," ","W","h","a","t"," ","w","a","s"," ","a","d","d","e","d","?","\n">>
    \* 58:     - What was removed?
    \o <<" "," "," "," ","-"," ","W","h","a","t"," ","w","a","s"," ","r","e","m","o","v","e","d","?","\n">>
    \* 59:     - What was modified?
    \o <<" "," "," "," ","-"," ","W","h","a","t"," ","w","a","s"," ","m","o","d","i","f","i","e","d","?","\n">>
    \* 60: - When useful, quote small snippets (in backticks) to show the old vs new behavior.
    \o <<"-"," ","W","h","e","n"," ","u","s","e","f","u","l",","," ","q","u","o","t","e"," ","s","m","a","l","l"," ","s","n","i","p","p","e","t","s"," ","(","i","n"," ","b","a","c","k","t","i","c","k","s",")"," ","t","o"," ","s","h","o","w"," ","t","h","e"," ","o","l","d"," ","v","s"," ","n","e","w"," ","b","e","h","a","v","i","o","r",".","\n">>
    \* 61: 
    \o <<"\n">>
    \* 62: 3. *Quality, Risks & Sensitive Content*
    \o <<"3","."," ","*","Q","u","a","l","i","t","y",","," ","R","i","s","k","s"," ","&"," ","S","e","n","s","i","t","i","v","e"," ","C","o","n","t","e","n","t","*","\n">>
    \* 63: - Highlight bugs, logic issues, readability problems, and code smells.
    \o <<"-"," ","H","i","g","h","l","i","g","h","t"," ","b","u","g","s",","," ","l","o","g","i","c"," ","i","s","s","u","e","s",","," ","r","e","a","d","a","b","i","l","i","t","y"," ","p","r","o","b","l","e","m","s",","," ","a","n","d"," ","c","o","d","e"," ","s","m","e","l","l","s",".","\n">>
    \* 64: - Analyze configuration and text files as well, not only source code.
    \o <<"-"," ","A","n","a","l","y","z","e"," ","c","o","n","f","i","g","u","r","a","t","i","o","n"," ","a","n","d"," ","t","e","x","t"," ","f","i","l","e","s"," ","a","s"," ","w","e","l","l",","," ","n","o","t"," ","o","n","l","y"," ","s","o","u","r","c","e"," ","c","o","d","e",".","\n">>
    \* 65: - Explicitly flag any *personal, sensitive or inappropriate content* that should not be committed (e.g. names, private messages, secrets).
    \o <<"-"," ","E","x","p","l","i","c","i","t","l","y"," ","f","l","a","g"," ","a","n","y"," ","*","p","e","r","s","o","n","a","l",","," ","s","e","n","s","i","t","i","v","e"," ","o","r"," ","i","n","a","p","p","r","o","p","r","i","a","t","e"," ","c","o","n","t","e","n","t","*"," ","t","h","a","t"," ","s","h","o","u","l","d"," ","n","o","t"," ","b","e"," ","c","o","m","m","i","t","t","e","d"," ","(","e",".","g","."," ","n","a","m","e","s",","," ","p","r","i","v","a","t","e"," ","m","e","s","s","a","g","e","s",","," ","s","e","c","r","e","t","s",")",".","\n">>
    \* 66: - Mention potential security or privacy risks.
    \o <<"-"," ","M","e","n","t","i","o","n"," ","p","o","t","e","n","t","i","a","l"," ","s","e","c","u","r","i","t","y"," ","o","r"," ","p","r","i","v","a","c","y"," ","r","i","s","k","s",".","\n">>
    \* 67: 
    \o <<"\n">>
    \* 68: 4. *Actionable Recommendations*
    \o <<"4","."," ","*","A","c","t","i","o","n","a","b","l","e"," ","R","e","c","o","m","m","e","n","d","a","t","i","o","n","s","*","\n">>
    \* 69: - Provide practical suggestions to improve the changes.
    \o <<"-"," ","P","r","o","v","i","d","e"," ","p","r","a","c","t","i","c","a","l"," ","s","u","g","g","e","s","t","i","o","n","s"," ","t","o"," ","i","m","p","r","o","v","e"," ","t","h","e"," ","c","h","a","n","g","e","s",".","\n">>
    \* 70: - You can propose refactors, better naming, extra tests, or removal of sensitive data.
    \o <<"-"," ","Y","o","u"," ","c","a","n"," ","p","r","o","p","o","s","e"," ","r","e","f","a","c","t","o","r","s",","," ","b","e","t","t","e","r"," ","n","a","m","i","n","g",","," ","e","x","t","r","a"," ","t","e","s","t","s",","," ","o","r"," ","r","e","m","o","v","a","l"," ","o","f"," ","s","e","n","s","i","t","i","v","e"," ","d","a","t","a",".","\n">>
    \* 71: 
    \o <<"\n">>
    \* 72: Respond in clear Markdown with the following sections:
    \o <<"R","e","s","p","o","n","d"," ","i","n"," ","c","l","e","a","r"," ","M","a","r","k","d","o","w","n"," ","w","i","t","h"," ","t","h","e"," ","f","o","l","l","o","w","i","n","g"," ","s","e","c","t","i","o","n","s",":","\n">>
    \* 73: 
    \o <<"\n">>
    \* 74: - Summary of Changes
    \o <<"-"," ","S","u","m","m","a","r","y"," ","o","f"," ","C","h","a","n","g","e","s","\n">>
    \* 75: - File-by-file Diff Explanation
    \o <<"-"," ","F","i","l","e","-","b","y","-","f","i","l","e"," ","D","i","f","f"," ","E","x","p","l","a","n","a","t","i","o","n","\n">>
    \* 76: - Risks & Sensitive Content
    \o <<"-"," ","R","i","s","k","s"," ","&"," ","S","e","n","s","i","t","i","v","e"," ","C","o","n","t","e","n","t","\n">>
    \* 77: - Recommendations
    \o <<"-"," ","R","e","c","o","m","m","e","n","d","a","t","i","o","n","s","\n">>
    \* 78: 
    \o <<"\n">>
    \* 79: Diff:
    \o <<"D","i","f","f",":","\n">>

\* the f-string of build_prompt after the placeholder: the newline before the closing quotes
PromptTail == <<"\n">>

build_prompt(d) == Strip(PromptHead \o d \o PromptTail)

----------------------------------------------------------------------------
(* int <-> decimal text *)

Digits == <<"0", "1", "2", "3", "4", "5", "6", "7", "8", "9">>

IsDigit(c) == \E k \in 1..10 : Digits[k] = c

DigitValue(c) == (CHOOSE k \in 1..10 : Digits[k] = c) - 1

RECURSIVE NatText(_)
NatText(n) == IF n < 10 THEN <<Digits[n + 1]>>
              ELSE NatText(n \div 10) \o <<Digits[(n % 10) + 1]>>

\* str(n) of an int, also the form json.dumps gives it
IntText(n) == IF n < 0 THEN <<"-">> \o NatText(-n) ELSE NatText(n)

RECURSIVE DigitsValue(_)
DigitsValue(ds) ==
    IF Len(ds) = 0 THEN 0
    ELSE 10 * DigitsValue(SubSeq(ds, 1, Len(ds) - 1)) + DigitValue(ds[Len(ds)])

----------------------------------------------------------------------------
(* json.loads, as response.json() applies it to the body text.  The bodies  *)
(* of the model use null, true, false, integers, strings with the escapes   *)
(* below, arrays and objects; floats, \uXXXX escapes and the constants NaN  *)
(* and Infinity are outside them.                                           *)

JsonWs == {" ", "\t", "\n", "\r"}

\* characters a JSON string may not hold unescaped
JsonControl == {"\t", "\n", "\r", "\f"}

\* the character an escape \c stands for
JsonUnescape(c) ==
    CASE c = "\"" -> "\""
      [] c = "\\" -> "\\"
      [] c = "/" -> "/"
      [] c = "n" -> "\n"
      [] c = "t" -> "\t"
      [] c = "r" -> "\r"
      [] c = "f" -> "\f"
      [] OTHER -> ""

ParseFail == [ok |-> FALSE, v |-> PyNone, i |-> 0]
ParseOk(val, next) == [ok |-> TRUE, v |-> val, i |-> next]

\* the first index from i on that holds no JSON whitespace (Len(s) + 1 at the end)
SkipWs(s, i) ==
    CHOOSE j \in i..(Len(s) + 1) :
        /\ \A k \in i..(j - 1) : s[k] \in JsonWs
        /\ (j = Len(s) + 1 \/ s[j] \notin JsonWs)

StartsAt(s, i, lit) ==
    i + Len(lit) - 1 <= Len(s) /\ SubSeq(s, i, i + Len(lit) - 1) = lit

\* the text of a string whose opening quote precedes index i
RECURSIVE ScanString(_, _, _)
ScanString(s, i, acc) ==
    IF i > Len(s) THEN ParseFail
    ELSE IF s[i] = "\"" THEN ParseOk(acc, i + 1)
    ELSE IF s[i] = "\\" THEN
        IF i + 1 > Len(s) \/ JsonUnescape(s[i + 1]) = "" THEN ParseFail
        ELSE ScanString(s, i + 2, Append(acc, JsonUnescape(s[i + 1])))
    ELSE IF s[i] \in JsonControl THEN ParseFail
    ELSE ScanString(s, i + 1, Append(acc, s[i]))

\* -?(0|[1-9][0-9]*) at index i
ScanNumber(s, i) ==
    LET neg == s[i] = "-"
        j == IF neg THEN i + 1 ELSE i
    IN  IF j > Len(s) \/ ~IsDigit(s[j]) THEN ParseFail
        ELSE LET e == IF s[j] = "0" THEN j
                      ELSE CHOOSE k \in j..Len(s) :
                               /\ \A m \in j..k : IsDigit(s[m])
                               /\ (k = Len(s) \/ ~IsDigit(s[k + 1]))
                 n == DigitsValue(SubSeq(s, j, e))
             IN  ParseOk(PyInt(IF neg THEN -n ELSE n), e + 1)

\* dict(pairs): a repeated key keeps its first place and takes the last value
DictSet(kvs, k, val) ==
    IF \E p \in 1..Len(kvs) : kvs[p][1] = k
    THEN [p \in 1..Len(kvs) |-> IF kvs[p][1] = k THEN <<k, val>> ELSE kvs[p]]
    ELSE Append(kvs, <<k, val>>)

RECURSIVE ParseValue(_, _), ParseElems(_, _, _), ParseMembers(_, _, _)

\* the JSON value that starts at index i (scan_once)
ParseValue(s, i) ==
    IF i > Len(s) THEN ParseFail
    ELSE IF s[i] = "\"" THEN
        LET r == ScanString(s, i + 1, <<>>)
        IN  IF r.ok THEN ParseOk(PyStr(r.v), r.i) ELSE ParseFail
    ELSE IF s[i] = "{" THEN
        LET j == SkipWs(s, i + 1)
        IN  IF j <= Len(s) /\ s[j] = "}" THEN ParseOk(PyDict(<<>>), j + 1)
            ELSE ParseMembers(s, j, <<>>)
    ELSE IF s[i] = "[" THEN
        LET j == SkipWs(s, i + 1)
        IN  IF j <= Len(s) /\ s[j] = "]" THEN ParseOk(PyList(<<>>), j + 1)
            ELSE ParseElems(s, j, <<>>)
    ELSE IF StartsAt(s, i, <<"n", "u", "l", "l">>) THEN ParseOk(PyNone, i + 4)
    ELSE IF StartsAt(s, i, <<"t", "r", "u", "e">>) THEN ParseOk(PyBool(TRUE), i + 4)
    ELSE IF StartsAt(s, i, <<"f", "a", "l", "s", "e">>) THEN ParseOk(PyBool(FALSE), i + 5)
    ELSE IF s[i] = "-" \/ IsDigit(s[i]) THEN ScanNumber(s, i)
    ELSE ParseFail

\* the elements of an array from the value at index i on (JSONArray)
ParseElems(s, i, acc) ==
    LET r == ParseValue(s, i)
    IN  IF ~r.ok THEN ParseFail
        ELSE LET j == SkipWs(s, r.i)
             IN  IF j > Len(s) THEN ParseFail
                 ELSE IF s[j] = "]" THEN ParseOk(PyList(Append(acc, r.v)), j + 1)
                 ELSE IF s[j] = "," THEN ParseElems(s, SkipWs(s, j + 1), Append(acc, r.v))
                 ELSE ParseFail

\* the members of an object from the key at index i on (JSONObject)
ParseMembers(s, i, acc) ==
    IF i > Len(s) \/ s[i] # "\"" THEN ParseFail
    ELSE LET k == ScanString(s, i + 1, <<>>)
         IN  IF ~k.ok THEN ParseFail
             ELSE LET c == SkipWs(s, k.i)
                  IN  IF c > Len(s) \/ s[c] # ":" THEN ParseFail
                      ELSE LET r == ParseValue(s, SkipWs(s, c + 1))
                           IN  IF ~r.ok THEN ParseFail
                               ELSE LET j == SkipWs(s, r.i)
                                        kvs == DictSet(acc, k.v, r.v)
                                    IN  IF j > Len(s) THEN ParseFail
                                        ELSE IF s[j] = "}" THEN ParseOk(PyDict(kvs), j + 1)
                                        ELSE IF s[j] = "," THEN ParseMembers(s, SkipWs(s, j + 1), kvs)
                                        ELSE ParseFail

\* json.loads(s): ok is FALSE where it raises JSONDecodeError
JsonLoads(s) ==
    LET r == ParseValue(s, SkipWs(s, 1))
    IN  IF r.ok /\ SkipWs(s, r.i) = Len(s) + 1 THEN r ELSE ParseFail

----------------------------------------------------------------------------
(* json.dumps(obj, indent=2) *)

RECURSIVE Spaces(_)
Spaces(n) == IF n = 0 THEN <<>> ELSE <<" ">> \o Spaces(n - 1)

\* the escape json.dumps writes for a character of a string
JsonEscape(c) ==
    CASE c = "\"" -> <<"\\", "\"">>
      [] c = "\\" -> <<"\\", "\\">>
      [] c = "\n" -> <<"\\", "n">>
      [] c = "\t" -> <<"\\", "t">>
      [] c = "\r" -> <<"\\", "r">>
      [] c = "\f" -> <<"\\", "f">>
      [] OTHER -> <<c>>

RECURSIVE EscapeAll(_)
EscapeAll(s) == IF Len(s) = 0 THEN <<>> ELSE JsonEscape(Head(s)) \o EscapeAll(Tail(s))

JsonString(s) == <<"\"">> \o EscapeAll(s) \o <<"\"">>

\* the texts ts joined by sep (sep.join(ts))
RECURSIVE Join(_, _)
Join(sep, ts) ==
    IF Len(ts) = 0 THEN <<>>
    ELSE IF Len(ts) = 1 THEN ts[1]
    ELSE ts[1] \o sep \o Join(sep, Tail(ts))

RECURSIVE Dumps(_, _)
\* obj written at nesting depth level
Dumps(obj, level) ==
    LET nl(k) == <<"\n">> \o Spaces(2 * k)
    IN  CASE obj.t = "None" -> <<"n", "u", "l", "l">>
          [] obj.t = "bool" -> IF obj.v THEN <<"t", "r", "u", "e">> ELSE <<"f", "a", "l", "s", "e">>
          [] obj.t = "int" -> IntText(obj.v)
          [] obj.t = "str" -> JsonString(obj.v)
          [] obj.t = "list" ->
                IF Len(obj.v) = 0 THEN <<"[", "]">>
                ELSE <<"[">> \o nl(level + 1)
                     \o Join(<<",">> \o nl(level + 1),
                             [p \in 1..Len(obj.v) |-> Dumps(obj.v[p], level + 1)])
                     \o nl(level) \o <<"]">>
          [] obj.t = "dict" ->
                IF Len(obj.v) = 0 THEN <<"{", "}">>
                ELSE <<"{">> \o nl(level + 1)
                     \o Join(<<",">> \o nl(level + 1),
                             [p \in 1..Len(obj.v) |->
                                 JsonString(obj.v[p][1]) \o <<":", " ">>
                                 \o Dumps(obj.v[p][2], level + 1)])
                     \o nl(level) \o <<"}">>

JsonDumpsIndent2(obj) == Dumps(obj, 0)

----------------------------------------------------------------------------
(* str() and repr() *)

\* repr of a str: single quotes unless the text holds ' and no "
ReprStr(s) ==
    LET hasS == \E p \in 1..Len(s) : s[p] = "'"
        hasD == \E p \in 1..Len(s) : s[p] = "\""
        q == IF hasS /\ ~hasD THEN "\"" ELSE "'"
        esc(c) == CASE c = q -> <<"\\", q>>
                    [] c = "\\" -> <<"\\", "\\">>
                    [] c = "\n" -> <<"\\", "n">>
                    [] c = "\t" -> <<"\\", "t">>
                    [] c = "\r" -> <<"\\", "r">>
                    [] c = "\f" -> <<"\\", "x", "0", "c">>
                    [] OTHER -> <<c>>
        RECURSIVE all(_)
        all(t) == IF Len(t) = 0 THEN <<>> ELSE esc(Head(t)) \o all(Tail(t))
    IN  <<q>> \o all(s) \o <<q>>

RECURSIVE PyRepr(_)
PyRepr(x) ==
    CASE x.t = "None" -> <<"N", "o", "n", "e">>
      [] x.t = "bool" -> IF x.v THEN <<"T", "r", "u", "e">> ELSE <<"F", "a", "l", "s", "e">>
      [] x.t = "int" -> IntText(x.v)
      [] x.t = "str" -> ReprStr(x.v)
      [] x.t = "list" ->
            <<"[">> \o Join(<<",", " ">>, [p \in 1..Len(x.v) |-> PyRepr(x.v[p])]) \o <<"]">>
      [] x.t = "dict" ->
            <<"{">>
            \o Join(<<",", " ">>,
                    [p \in 1..Len(x.v) |->
                        ReprStr(x.v[p][1]) \o <<":", " ">> \o PyRepr(x.v[p][2])])
            \o <<"}">>

\* str(x): a str is itself, every other value its repr
PyStrOf(x) == IF x.t = "str" THEN x.v ELSE PyRepr(x)

----------------------------------------------------------------------------
(* subscripting *)

Got(val) == [exc |-> "", v |-> val]
Raised(cls) == [exc |-> cls, v |-> PyNone]

DictHas(x, k) == \E p \in 1..Len(x.v) : x.v[p][1] = k
DictGet(x, k) == x.v[CHOOSE p \in 1..Len(x.v) : x.v[p][1] = k][2]

\* x[k] for a str key k
GetItemStr(x, k) ==
    IF x.t = "dict" THEN (IF DictHas(x, k) THEN Got(DictGet(x, k)) ELSE Raised("KeyError"))
    ELSE Raised("TypeError")

\* x[0]
GetItem0(x) ==
    CASE x.t = "list" -> IF Len(x.v) > 0 THEN Got(x.v[1]) ELSE Raised("IndexError")
      [] x.t = "str" -> IF Len(x.v) > 0 THEN Got(PyStr(<<x.v[1]>>)) ELSE Raised("IndexError")
      [] x.t = "dict" -> Raised("KeyError")
      [] OTHER -> Raised("TypeError")

----------------------------------------------------------------------------
(* Outcomes and exceptions *)

NoOutcome == [kind |-> "none"]
Returned(val) == [kind |-> "return", v |-> val]
Raise(cls, text) == [kind |-> "raise", cls |-> cls, msg |-> text]

NotSet == [t |-> "unset"]
NoResponse == [status_code |-> 0, text |-> <<>>]
NotRead == [state |-> "unread", exc |-> "", text |-> <<>>]

\* the classes an except clause naming base catches
Subclasses(base) ==
    CASE base = "OSError" ->
            {"OSError", "FileNotFoundError", "PermissionError", "IsADirectoryError"}
      [] base = "RequestException" ->
            {"RequestException", "ConnectionError", "Timeout", "JSONDecodeError"}
      [] OTHER -> {base}

IsInstance(cls, base) == cls \in Subclasses(base)

(* Texts of the program *)

\* line 131: timeout=60
RequestTimeout == 60

\* https://models.github.ai/inference/chat/completions
GITHUB_MODELS_ENDPOINT ==
    <<"h","t","t","p","s",":","/","/","m","o","d","e","l","s",".","g","i","t","h","u","b",".","a",
      "i","/","i","n","f","e","r","e","n","c","e","/","c","h","a","t","/","c","o","m","p","l","e",
      "t","i","o","n","s">>
\* openai/gpt-4o-mini
DEFAULT_MODEL == <<"o","p","e","n","a","i","/","g","p","t","-","4","o","-","m","i","n","i">>
\* Empty diff provided; nothing to review.
EmptyDiffMsg ==
    <<"E","m","p","t","y"," ","d","i","f","f"," ","p","r","o","v","i","d","e","d",";"," ","n","o",
      "t","h","i","n","g"," ","t","o"," ","r","e","v","i","e","w",".">>
\* Missing GITHUB_TOKEN environment variable. Set it to a GitHub PAT with models:read permissions.
MissingTokenMsg ==
    <<"M","i","s","s","i","n","g"," ","G","I","T","H","U","B","_","T","O","K","E","N"," ","e","n",
      "v","i","r","o","n","m","e","n","t"," ","v","a","r","i","a","b","l","e","."," ","S","e","t",
      " ","i","t"," ","t","o"," ","a"," ","G","i","t","H","u","b"," ","P","A","T"," ","w","i","t",
      "h"," ","m","o","d","e","l","s",":","r","e","a","d"," ","p","e","r","m","i","s","s","i","o",
      "n","s",".">>
\* Bearer 
BearerPrefix == <<"B","e","a","r","e","r"," ">>
\* 2022-11-28
ApiVersion == <<"2","0","2","2","-","1","1","-","2","8">>
\* application/json
ApplicationJson == <<"a","p","p","l","i","c","a","t","i","o","n","/","j","s","o","n">>
\* HTTP request failed: 
RequestFailedPrefix ==
    <<"H","T","T","P"," ","r","e","q","u","e","s","t"," ","f","a","i","l","e","d",":"," ">>
\* GitHub Models API returned 
StatusPrefix ==
    <<"G","i","t","H","u","b"," ","M","o","d","e","l","s"," ","A","P","I"," ","r","e","t","u","r",
      "n","e","d"," ">>
\* Unexpected response format from API: 
UnexpectedPrefix ==
    <<"U","n","e","x","p","e","c","t","e","d"," ","r","e","s","p","o","n","s","e"," ","f","o","r",
      "m","a","t"," ","f","r","o","m"," ","A","P","I",":"," ">>
\* Usage: python -m bot.review path/to/diff.txt
UsageMsg ==
    <<"U","s","a","g","e",":"," ","p","y","t","h","o","n"," ","-","m"," ","b","o","t",".","r","e",
      "v","i","e","w"," ","p","a","t","h","/","t","o","/","d","i","f","f",".","t","x","t">>
\* Error reading diff file '
ReadErrorPrefix ==
    <<"E","r","r","o","r"," ","r","e","a","d","i","n","g"," ","d","i","f","f"," ","f","i","l","e",
      " ","'">>
\* AI review failed: 
ReviewFailedPrefix == <<"A","I"," ","r","e","v","i","e","w"," ","f","a","i","l","e","d",":"," ">>
\* choices
KeyChoices == <<"c","h","o","i","c","e","s">>
\* message
KeyMessage == <<"m","e","s","s","a","g","e">>
\* content
KeyContent == <<"c","o","n","t","e","n","t">>
\* text
KeyText == <<"t","e","x","t">>
\* Summary of Changes
HeadingSummary == <<"S","u","m","m","a","r","y"," ","o","f"," ","C","h","a","n","g","e","s">>
\* File-by-file Diff Explanation
HeadingFiles ==
    <<"F","i","l","e","-","b","y","-","f","i","l","e"," ","D","i","f","f"," ","E","x","p","l","a",
      "n","a","t","i","o","n">>
\* Risks & Sensitive Content
HeadingRisks ==
    <<"R","i","s","k","s"," ","&"," ","S","e","n","s","i","t","i","v","e"," ","C","o","n","t","e",
      "n","t">>
\* Recommendations
HeadingRecommendations == <<"R","e","c","o","m","m","e","n","d","a","t","i","o","n","s">>
\* review.py
ProgName == <<"r","e","v","i","e","w",".","p","y">>
\* pr_diff.txt
DiffPath == <<"p","r","_","d","i","f","f",".","t","x","t">>
\* [Errno 2] No such file or directory: 'pr_diff.txt'
NoSuchFileMsg ==
    <<"[","E","r","r","n","o"," ","2","]"," ","N","o"," ","s","u","c","h"," ","f","i","l","e"," ",
      "o","r"," ","d","i","r","e","c","t","o","r","y",":"," ","'","p","r","_","d","i","f","f",".",
      "t","x","t","'">>
\* [Errno 13] Permission denied: 'pr_diff.txt'
PermissionDeniedMsg ==
    <<"[","E","r","r","n","o"," ","1","3","]"," ","P","e","r","m","i","s","s","i","o","n"," ","d",
      "e","n","i","e","d",":"," ","'","p","r","_","d","i","f","f",".","t","x","t","'">>
\* [Errno 21] Is a directory: 'pr_diff.txt'
IsADirectoryMsg ==
    <<"[","E","r","r","n","o"," ","2","1","]"," ","I","s"," ","a"," ","d","i","r","e","c","t","o",
      "r","y",":"," ","'","p","r","_","d","i","f","f",".","t","x","t","'">>
\* 'utf-8' codec can't decode byte 0xff in position 0: invalid start byte
UndecodableMsg ==
    <<"'","u","t","f","-","8","'"," ","c","o","d","e","c"," ","c","a","n","'","t"," ","d","e","c",
      "o","d","e"," ","b","y","t","e"," ","0","x","f","f"," ","i","n"," ","p","o","s","i","t","i",
      "o","n"," ","0",":"," ","i","n","v","a","l","i","d"," ","s","t","a","r","t"," ","b","y","t",
      "e">>
\* connection refused
ConnectionRefusedMsg == <<"c","o","n","n","e","c","t","i","o","n"," ","r","e","f","u","s","e","d">>
\* read timed out
ReadTimedOutMsg == <<"r","e","a","d"," ","t","i","m","e","d"," ","o","u","t">>

----------------------------------------------------------------------------
(* Response bodies of the model *)

\* {"choices":[{"message":{"content":"Hello"}}]}
BodyHello ==
    <<"{","\"","c","h","o","i","c","e","s","\"",":","[","{","\"","m","e","s","s","a","g","e","\"",
      ":","{","\"","c","o","n","t","e","n","t","\"",":","\"","H","e","l","l","o","\"","}","}","]",
      "}">>
\* {"choices":[{"message":{"content":[{"text":"A"},{"text":"B"}]}}]}
BodyParts ==
    <<"{","\"","c","h","o","i","c","e","s","\"",":","[","{","\"","m","e","s","s","a","g","e","\"",
      ":","{","\"","c","o","n","t","e","n","t","\"",":","[","{","\"","t","e","x","t","\"",":",
      "\"","A","\"","}",",","{","\"","t","e","x","t","\"",":","\"","B","\"","}","]","}","}","]",
      "}">>
\* {"choices":[{"message":{"content":[{"text":7},"x\ny",{"type":"t"},null]}}]}
BodyMixedParts ==
    <<"{","\"","c","h","o","i","c","e","s","\"",":","[","{","\"","m","e","s","s","a","g","e","\"",
      ":","{","\"","c","o","n","t","e","n","t","\"",":","[","{","\"","t","e","x","t","\"",":","7",
      "}",",","\"","x","\\","n","y","\"",",","{","\"","t","y","p","e","\"",":","\"","t","\"","}",
      ",","n","u","l","l","]","}","}","]","}">>
\* {"choices":[{"message":{"content":[]}}]}
BodyNoParts ==
    <<"{","\"","c","h","o","i","c","e","s","\"",":","[","{","\"","m","e","s","s","a","g","e","\"",
      ":","{","\"","c","o","n","t","e","n","t","\"",":","[","]","}","}","]","}">>
\* {"choices":[{"message":{"content":[{"text":""}]}}]}
BodyOnePart ==
    <<"{","\"","c","h","o","i","c","e","s","\"",":","[","{","\"","m","e","s","s","a","g","e","\"",
      ":","{","\"","c","o","n","t","e","n","t","\"",":","[","{","\"","t","e","x","t","\"",":",
      "\"","\"","}","]","}","}","]","}">>
\* { "choices": [ {"message": {"content": "ok"}}, {"message": {}} ] }
BodySpaced ==
    <<"{"," ","\"","c","h","o","i","c","e","s","\"",":"," ","["," ","{","\"","m","e","s","s","a",
      "g","e","\"",":"," ","{","\"","c","o","n","t","e","n","t","\"",":"," ","\"","o","k","\"",
      "}","}",","," ","{","\"","m","e","s","s","a","g","e","\"",":"," ","{","}","}"," ","]"," ",
      "}">>
\* {"choices":[{"message":{"content":-12}}]}
BodyContentInt ==
    <<"{","\"","c","h","o","i","c","e","s","\"",":","[","{","\"","m","e","s","s","a","g","e","\"",
      ":","{","\"","c","o","n","t","e","n","t","\"",":","-","1","2","}","}","]","}">>
\* {"choices":[{"message":{"content":null}}]}
BodyContentNull ==
    <<"{","\"","c","h","o","i","c","e","s","\"",":","[","{","\"","m","e","s","s","a","g","e","\"",
      ":","{","\"","c","o","n","t","e","n","t","\"",":","n","u","l","l","}","}","]","}">>
\* {"choices":[{"message":{"content":{"text":"A"}}}]}
BodyContentDict ==
    <<"{","\"","c","h","o","i","c","e","s","\"",":","[","{","\"","m","e","s","s","a","g","e","\"",
      ":","{","\"","c","o","n","t","e","n","t","\"",":","{","\"","t","e","x","t","\"",":","\"",
      "A","\"","}","}","}","]","}">>
\* {"choices":[]}
BodyNoChoices == <<"{","\"","c","h","o","i","c","e","s","\"",":","[","]","}">>
\* {"error":"quota"}
BodyNoKey == <<"{","\"","e","r","r","o","r","\"",":","\"","q","u","o","t","a","\"","}">>
\* {"choices":[{"index":0}]}
BodyNoMessage ==
    <<"{","\"","c","h","o","i","c","e","s","\"",":","[","{","\"","i","n","d","e","x","\"",":","0",
      "}","]","}">>
\* {"choices":[{"message":{"role":"assistant"}}]}
BodyNoContent ==
    <<"{","\"","c","h","o","i","c","e","s","\"",":","[","{","\"","m","e","s","s","a","g","e","\"",
      ":","{","\"","r","o","l","e","\"",":","\"","a","s","s","i","s","t","a","n","t","\"","}","}",
      "]","}">>
\* {"choices":{"0":true}}
BodyChoicesDict ==
    <<"{","\"","c","h","o","i","c","e","s","\"",":","{","\"","0","\"",":","t","r","u","e","}",
      "}">>
\* {"choices":null}
BodyChoicesNull == <<"{","\"","c","h","o","i","c","e","s","\"",":","n","u","l","l","}">>
\* {"choices":"none"}
BodyChoicesStr == <<"{","\"","c","h","o","i","c","e","s","\"",":","\"","n","o","n","e","\"","}">>
\* {"choices":0}
BodyChoicesInt == <<"{","\"","c","h","o","i","c","e","s","\"",":","0","}">>
\* {"choices":[{"message":"hi"}]}
BodyMessageStr ==
    <<"{","\"","c","h","o","i","c","e","s","\"",":","[","{","\"","m","e","s","s","a","g","e","\"",
      ":","\"","h","i","\"","}","]","}">>
\* {"choices":[{"message":null}]}
BodyMessageNull ==
    <<"{","\"","c","h","o","i","c","e","s","\"",":","[","{","\"","m","e","s","s","a","g","e","\"",
      ":","n","u","l","l","}","]","}">>
\* {"choices":[null]}
BodyChoiceNull == <<"{","\"","c","h","o","i","c","e","s","\"",":","[","n","u","l","l","]","}">>
\* []
BodyList == <<"[","]">>
\* null
BodyNull == <<"n","u","l","l">>
\* "not found"
BodyString == <<"\"","n","o","t"," ","f","o","u","n","d","\"">>
\* {\n  "choices": []\n}
BodyPretty == <<"{","\n"," "," ","\"","c","h","o","i","c","e","s","\"",":"," ","[","]","\n","}">>
\* not found
BodyText == <<"n","o","t"," ","f","o","u","n","d">>
\* (the empty body)
BodyEmpty == <<>>
Bodies ==
    {BodyHello, BodyParts, BodyMixedParts, BodyNoParts,
     BodyOnePart, BodySpaced, BodyContentInt, BodyContentNull,
     BodyContentDict, BodyNoChoices, BodyNoKey, BodyNoMessage,
     BodyNoContent, BodyChoicesDict, BodyChoicesNull, BodyChoicesStr,
     BodyChoicesInt, BodyMessageStr, BodyMessageNull, BodyChoiceNull,
     BodyList, BodyNull, BodyString, BodyPretty,
     BodyText, BodyEmpty}

----------------------------------------------------------------------------
(* The world the program runs in *)

\* characters of the diff texts
DiffChars == {"+", " ", "\n"}

\* the diff texts handed to review_diff or found in the diff file
DiffTexts == TextsUpTo(DiffChars, MaxDiffLen)

\* characters of the diff texts of the prompt-builder specification
PromptDiffChars == {"+", " ", "\n", "\t"}

\* values of the GITHUB_TOKEN environment variable: unset, empty, a credential
EnvValues == {PyNone, PyStr(<<>>), PyStr(<<"e">>)}

\* values of the token argument of review_diff: omitted (None), empty, a credential
TokenArgs == {PyNone, PyStr(<<>>), PyStr(<<"t">>)}

\* argument vectors: without and with the path of the diff file
Argvs == {<<ProgName>>, <<ProgName, DiffPath>>}

\* what open(path, "r", encoding="utf-8") and f.read() can meet
FileOutcomes ==
    {[state |-> "raised", exc |-> "FileNotFoundError", text |-> NoSuchFileMsg],
     [state |-> "raised", exc |-> "PermissionError", text |-> PermissionDeniedMsg],
     [state |-> "raised", exc |-> "IsADirectoryError", text |-> IsADirectoryMsg],
     [state |-> "raised", exc |-> "UnicodeDecodeError", text |-> UndecodableMsg]}
    \cup {[state |-> "read", exc |-> "", text |-> d] : d \in DiffTexts}

StatusCodes == {200, 204, 404}

\* what requests.post can meet: a transport failure or a response
NetOutcomes ==
    {[exc |-> "ConnectionError", msg |-> ConnectionRefusedMsg, status_code |-> 0, text |-> <<>>],
     [exc |-> "Timeout", msg |-> ReadTimedOutMsg, status_code |-> 0, text |-> <<>>]}
    \cup {[exc |-> "", msg |-> <<>>, status_code |-> s, text |-> b] :
             s \in StatusCodes, b \in Bodies}

----------------------------------------------------------------------------
(* review_diff *)

\* line 98 without the strip: only the empty text counts as blank
IsBlankNoStrip(d) == Len(d) = 0

\* line 98: not diff_text.strip()
IsBlank(d) == Len(Strip(d)) = 0

\* lines 101-102: the explicit token unless it is None, else the environment's
ResolveToken(tok, env) == IF tok.t = "None" THEN env ELSE tok

\* line 104 testing for the empty text only, so that None passes
TokenMissingEmptyOnly(tok) == tok.t = "str" /\ Len(tok.v) = 0

\* line 104: not token
TokenMissing(tok) == ~Truthy(tok)

\* line 136 letting every 2xx status through
StatusOkAny2xx(code) == code \in 200..299

\* line 136: the status that lets the body through
StatusOk(code) == code = 200

\* line 146: data["choices"][0]["message"]["content"]
ContentOf(dat) ==
    LET a == GetItemStr(dat, KeyChoices)
    IN  IF a.exc # "" THEN a
        ELSE LET b == GetItem0(a.v)
             IN  IF b.exc # "" THEN b
                 ELSE LET c == GetItemStr(b.v, KeyMessage)
                      IN  IF c.exc # "" THEN c ELSE GetItemStr(c.v, KeyContent)

\* line 147: the lookup errors the except clause catches
LookupCaught(cls) == IsInstance(cls, "KeyError") \/ IsInstance(cls, "IndexError")

\* line 149 formatting data itself instead of json.dumps(data, indent=2)
UnexpectedMsgStr(dat) == UnexpectedPrefix \o PyStrOf(dat)

\* line 149: the message of the unexpected-format error
UnexpectedMsg(dat) == UnexpectedPrefix \o JsonDumpsIndent2(dat)

\* line 138: the message of the status error
StatusMsg(resp) == StatusPrefix \o IntText(resp.status_code) \o <<":", " ">> \o resp.text

\* lines 160-163 without the branch for a mapping with a text entry
PartTextNoEntry(part) == PyStrOf(part)

\* lines 160-163: the text one content part contributes
PartText(part) ==
    IF part.t = "dict" /\ DictHas(part, KeyText)
    THEN PyStrOf(DictGet(part, KeyText))
    ELSE PyStrOf(part)

\* lines 152-167: the review text of a message content
NormalizeContent(mc) ==
    IF mc.t = "str" THEN mc.v
    ELSE IF mc.t = "list" THEN Join(<<"\n">>, [p \in 1..Len(mc.v) |-> PartText(mc.v[p])])
    ELSE PyStrOf(mc)

\* lines 112-132: the request handed to requests.post (the parameter model is
\* left at its default)
Request(tok, text) ==
    [url |-> GITHUB_MODELS_ENDPOINT,
     headers |-> [Authorization |-> BearerPrefix \o PyStrOf(tok),
                  ContentType |-> ApplicationJson,
                  Accept |-> ApplicationJson,
                  XGitHubApiVersion |-> ApiVersion],
     payload |-> [model |-> DEFAULT_MODEL,
                  messages |-> <<[role |-> "user", content |-> text]>>],
     timeout |-> RequestTimeout]

\* review_diff ends: the caller goes on
ReviewEnds(res) ==
    /\ result' = res
    /\ pc' = IF caller = "main" THEN "handle" ELSE "exit"

\* review_diff called directly with a diff text and a token argument
LibCall(d, t) ==
    /\ pc = "start"
    /\ caller' = "lib"
    /\ calls' = calls + 1
    /\ diff_text' = d
    /\ token_arg' = t
    /\ token' = t
    /\ pc' = "check_diff"
    /\ UNCHANGED <<environ, argv, file, prompt, posts, response, json_calls, data,
                   message_content, result, exit, stdout, stderr, d0>>

\* lines 98-99
CheckDiff ==
    /\ pc = "check_diff"
    /\ IF IsBlank(diff_text)
       THEN ReviewEnds(Raise("AIReviewError", EmptyDiffMsg))
       ELSE pc' = "get_token" /\ UNCHANGED result
    /\ UNCHANGED <<caller, environ, argv, file, calls, diff_text, token_arg, token, prompt,
                   posts, response, json_calls, data, message_content, exit, stdout, stderr, d0>>

\* lines 101-102
GetToken ==
    /\ pc = "get_token"
    /\ token' = ResolveToken(token, environ)
    /\ pc' = "check_token"
    /\ UNCHANGED <<caller, environ, argv, file, calls, diff_text, token_arg, prompt, posts,
                   response, json_calls, data, message_content, result, exit, stdout, stderr, d0>>

\* lines 104-108
CheckToken ==
    /\ pc = "check_token"
    /\ IF TokenMissing(token)
       THEN ReviewEnds(Raise("AIReviewError", MissingTokenMsg))
       ELSE pc' = "post" /\ UNCHANGED result
    /\ UNCHANGED <<caller, environ, argv, file, calls, diff_text, token_arg, token, prompt,
                   posts, response, json_calls, data, message_content, exit, stdout, stderr, d0>>

\* lines 110-134: the prompt, the request and the one POST, which meets net
Post(net) ==
    /\ pc = "post"
    /\ prompt' = build_prompt(diff_text)
    /\ posts' = Append(posts, Request(token, prompt'))
    /\ IF net.exc # ""
       THEN \* every transport failure is a requests.RequestException
            /\ ReviewEnds(Raise("AIReviewError", RequestFailedPrefix \o net.msg))
            /\ UNCHANGED response
       ELSE /\ response' = [status_code |-> net.status_code, text |-> net.text]
            /\ pc' = "check_status"
            /\ UNCHANGED result
    /\ UNCHANGED <<caller, environ, argv, file, calls, diff_text, token_arg, token,
                   json_calls, data, message_content, exit, stdout, stderr, d0>>

\* lines 136-139
CheckStatus ==
    /\ pc = "check_status"
    /\ IF ~StatusOk(response.status_code)
       THEN ReviewEnds(Raise("AIReviewError", StatusMsg(response)))
       ELSE pc' = "json" /\ UNCHANGED result
    /\ UNCHANGED <<caller, environ, argv, file, calls, diff_text, token_arg, token, prompt,
                   posts, response, json_calls, data, message_content, exit, stdout, stderr, d0>>

\* line 141: response.json(); its JSONDecodeError is raised outside every try
ParseJson ==
    /\ pc = "json"
    /\ json_calls' = json_calls + 1
    /\ LET r == JsonLoads(response.text)
       IN  IF r.ok
           THEN data' = r.v /\ pc' = "extract" /\ UNCHANGED result
           ELSE ReviewEnds(Raise("JSONDecodeError", <<>>)) /\ UNCHANGED data
    /\ UNCHANGED <<caller, environ, argv, file, calls, diff_text, token_arg, token, prompt,
                   posts, response, message_content, exit, stdout, stderr, d0>>

\* lines 145-150: the lookup; KeyError and IndexError become the tagged error,
\* any other exception of the lookup leaves review_diff as it is
Extract ==
    /\ pc = "extract"
    /\ LET c == ContentOf(data)
       IN  IF c.exc = ""
           THEN message_content' = c.v /\ pc' = "normalize" /\ UNCHANGED result
           ELSE /\ ReviewEnds(IF LookupCaught(c.exc)
                              THEN Raise("AIReviewError", UnexpectedMsg(data))
                              ELSE Raise(c.exc, <<>>))
                /\ UNCHANGED message_content
    /\ UNCHANGED <<caller, environ, argv, file, calls, diff_text, token_arg, token, prompt,
                   posts, response, json_calls, data, exit, stdout, stderr, d0>>

\* lines 152-167
Normalize ==
    /\ pc = "normalize"
    /\ ReviewEnds(Returned(NormalizeContent(message_content)))
    /\ UNCHANGED <<caller, environ, argv, file, calls, diff_text, token_arg, token, prompt,
                   posts, response, json_calls, data, message_content, exit, stdout, stderr, d0>>

----------------------------------------------------------------------------
(* _read_file and main *)

\* line 192: the exceptions of _read_file that main catches
ReadCaught(cls) == IsInstance(cls, "OSError")

\* line 198 catching every exception
ReviewCaughtAny(cls) == TRUE

\* line 198: the exceptions of review_diff that main catches
ReviewCaught(cls) == IsInstance(cls, "AIReviewError")

\* line 193: the read error printed
ReadErrorMsg(path, text) == ReadErrorPrefix \o path \o <<"'", ":", " ">> \o text

\* lines 185-189
MainEntry(av) ==
    /\ pc = "start"
    /\ caller' = "main"
    /\ argv' = av
    /\ IF Len(av) < 2
       THEN /\ stderr' = Append(stderr, UsageMsg)
            /\ exit' = Returned(1)
            /\ pc' = "exit"
       ELSE /\ pc' = "read"
            /\ UNCHANGED <<stderr, exit>>
    /\ UNCHANGED <<environ, file, calls, diff_text, token_arg, token, prompt, posts, response,
                   json_calls, data, message_content, result, stdout, d0>>

\* lines 190-197 with _read_file (170-173): the read meets f; a text read is
\* handed to review_diff(diff_text), whose token defaults to None
MainRead(f) ==
    /\ pc = "read"
    /\ file' = f
    /\ IF f.state = "read"
       THEN /\ calls' = calls + 1
            /\ diff_text' = f.text
            /\ token_arg' = PyNone
            /\ token' = PyNone
            /\ pc' = "check_diff"
            /\ UNCHANGED <<stderr, exit>>
       ELSE /\ IF ReadCaught(f.exc)
               THEN /\ stderr' = Append(stderr, ReadErrorMsg(argv[2], f.text))
                    /\ exit' = Returned(1)
               ELSE /\ exit' = Raise(f.exc, f.text)
                    /\ UNCHANGED stderr
            /\ pc' = "exit"
            /\ UNCHANGED <<calls, diff_text, token_arg, token>>
    /\ UNCHANGED <<caller, environ, argv, prompt, posts, response, json_calls, data,
                   message_content, result, stdout, d0>>

\* lines 196-203
MainHandle ==
    /\ pc = "handle"
    /\ IF result.kind = "raise"
       THEN IF ReviewCaught(result.cls)
            THEN /\ stderr' = Append(stderr, ReviewFailedPrefix \o result.msg)
                 /\ exit' = Returned(2)
                 /\ UNCHANGED stdout
            ELSE /\ exit' = result
                 /\ UNCHANGED <<stdout, stderr>>
       ELSE /\ stdout' = Append(stdout, result.v)
            /\ exit' = Returned(0)
            /\ UNCHANGED stderr
    /\ pc' = "exit"
    /\ UNCHANGED <<caller, environ, argv, file, calls, diff_text, token_arg, token, prompt,
                   posts, response, json_calls, data, message_content, result, d0>>

----------------------------------------------------------------------------
(* Specifications *)

Blank0 ==
    /\ caller = ""
    /\ argv = <<>>
    /\ file = NotRead
    /\ calls = 0
    /\ diff_text = <<>>
    /\ token_arg = PyNone
    /\ token = PyNone
    /\ prompt = <<>>
    /\ posts = <<>>
    /\ response = NoResponse
    /\ json_calls = 0
    /\ data = NotSet
    /\ message_content = NotSet
    /\ result = NoOutcome
    /\ exit = NoOutcome
    /\ stdout = <<>>
    /\ stderr = <<>>

\* one run of the program: the CLI, or one direct call of review_diff
Init ==
    /\ pc = "start"
    /\ environ \in EnvValues
    /\ d0 = <<>>
    /\ Blank0

Next ==
    \/ \E av \in Argvs : MainEntry(av)
    \/ \E f \in FileOutcomes : MainRead(f)
    \/ \E d \in DiffTexts, t \in TokenArgs : LibCall(d, t)
    \/ CheckDiff
    \/ GetToken
    \/ CheckToken
    \/ \E net \in NetOutcomes : Post(net)
    \/ CheckStatus
    \/ ParseJson
    \/ Extract
    \/ Normalize
    \/ MainHandle

Spec == Init /\ [][Next]_vars

\* build_prompt applied to one diff text
PromptInit ==
    /\ pc = "prompt"
    /\ environ = PyNone
    /\ d0 \in TextsUpTo(PromptDiffChars, MaxPromptDiffLen)
    /\ Blank0

BuildPrompt ==
    /\ pc = "prompt"
    /\ prompt' = build_prompt(d0)
    /\ pc' = "built"
    /\ UNCHANGED <<caller, environ, argv, file, calls, diff_text, token_arg, token, posts,
                   response, json_calls, data, message_content, result, exit, stdout, stderr, d0>>

PromptNext == BuildPrompt

SpecPrompt == PromptInit /\ [][PromptNext]_vars

----------------------------------------------------------------------------
(* Properties *)

\* needle occurs in hay as a contiguous run of characters
Contains(hay, needle) ==
    \E i \in 0..(Len(hay) - Len(needle)) :
        SubSeq(hay, i + 1, i + Len(needle)) = needle

HasPrefix(s, p) == Len(s) >= Len(p) /\ SubSeq(s, 1, Len(p)) = p

\* the text is empty or holds whitespace only
AllWhitespace(d) == \A i \in 1..Len(d) : d[i] \in PyWhitespace

EmptyInputError == Raise("AIReviewError", EmptyDiffMsg)
MissingCredentialError == Raise("AIReviewError", MissingTokenMsg)

\* the malformed-response error: the tagged error with the unexpected-format text
IsMalformedError(res) ==
    /\ res.kind = "raise"
    /\ res.cls = "AIReviewError"
    /\ HasPrefix(res.msg, UnexpectedPrefix)

\* one of the five tagged errors of review_diff
IsTaggedError(res) ==
    /\ res.kind = "raise"
    /\ res.cls = "AIReviewError"
    /\ \/ res.msg = EmptyDiffMsg
       \/ res.msg = MissingTokenMsg
       \/ HasPrefix(res.msg, RequestFailedPrefix)
       \/ HasPrefix(res.msg, StatusPrefix)
       \/ HasPrefix(res.msg, UnexpectedPrefix)

\* the value has an entry under key k
HasEntry(x, k) == x.t = "dict" /\ \E p \in 1..Len(x.v) : x.v[p][1] = k
Entry(x, k) == x.v[CHOOSE p \in 1..Len(x.v) : x.v[p][1] = k][2]

\* the parsed body has the path choices[0].message.content
HasShape(dat) ==
    /\ HasEntry(dat, KeyChoices)
    /\ Entry(dat, KeyChoices).t = "list"
    /\ Len(Entry(dat, KeyChoices).v) > 0
    /\ HasEntry(Entry(dat, KeyChoices).v[1], KeyMessage)
    /\ HasEntry(Entry(Entry(dat, KeyChoices).v[1], KeyMessage), KeyContent)

\* C1: every status-200 response whose parsed body lacks the path
\* choices[0].message.content ends review_diff with the tagged
\* unexpected-response-format error, never with another exception.
C1_MalformedShapeGivesTaggedError ==
    (/\ response.status_code = 200
     /\ data # NotSet
     /\ ~HasShape(data)
     /\ result.kind # "none")
    => IsMalformedError(result)

\* C2: a call of review_diff with an empty or whitespace-only diff text, whatever
\* the token argument and the environment variable, fails with the empty-input
\* error at its first check, and no POST is issued at any point of the call.
C2_BlankDiffFailsBeforeNetwork ==
    (calls = 1 /\ AllWhitespace(diff_text))
    => /\ posts = <<>>
       /\ response = NoResponse
       /\ pc # "check_diff" => result = EmptyInputError

C2_Witness ==
    /\ calls = 1
    /\ Len(diff_text) > 0
    /\ AllWhitespace(diff_text)
    /\ token_arg = PyStr(<<"t">>)
    /\ environ = PyStr(<<"e">>)
    /\ pc = "exit"
    /\ result = EmptyInputError

\* C3: a call of review_diff with a non-blank diff text, no token argument and
\* the environment variable unset fails with the missing-credential error, and
\* no POST is issued at any point of the call.
C3_NoCredentialFailsBeforeNetwork ==
    (calls = 1 /\ ~AllWhitespace(diff_text) /\ token_arg = PyNone /\ environ = PyNone)
    => /\ posts = <<>>
       /\ response = NoResponse
       /\ pc \notin {"check_diff", "get_token", "check_token"}
              => result = MissingCredentialError

C3_Witness ==
    /\ calls = 1
    /\ ~AllWhitespace(diff_text)
    /\ token_arg = PyNone
    /\ environ = PyNone
    /\ pc = "exit"
    /\ result = MissingCredentialError

\* C4: the credential sent is the token argument when one is given, else the
\* environment variable's value; the missing-credential error is raised only
\* when neither holds a credential, so never when the environment variable
\* holds a non-empty credential, whatever the token argument is.
C4_EnvCredentialNeverMissing ==
    /\ posts # <<>>
          => posts[1].headers.Authorization
                 = BearerPrefix \o (IF token_arg # PyNone THEN token_arg.v ELSE environ.v)
    /\ result = MissingCredentialError => ~Truthy(token_arg) /\ ~Truthy(environ)
    /\ (calls = 1 /\ Truthy(environ)) => result # MissingCredentialError

\* C5: once main has read the diff file, it returns 2 exactly when the review
\* call raised one of the five tagged errors, with one diagnostic on standard
\* error and nothing on standard output, and returns 0 exactly when the review
\* call returned, with the review text on standard output; nothing is written
\* to standard output unless main returns 0.
C5_ExitCodeFollowsReview ==
    /\ (caller = "main" /\ calls = 1 /\ pc = "exit")
          => /\ (exit = Returned(2)) <=> IsTaggedError(result)
             /\ exit = Returned(2)
                    => stderr = <<ReviewFailedPrefix \o result.msg>> /\ stdout = <<>>
             /\ (exit = Returned(0)) <=> (result.kind = "return")
             /\ exit = Returned(0) => stdout = <<result.v>> /\ stderr = <<>>
    /\ (caller = "main" /\ exit # Returned(0)) => stdout = <<>>

C5_Witness ==
    /\ caller = "main"
    /\ pc = "exit"
    /\ exit = Returned(2)
    /\ IsMalformedError(result)
    /\ stderr = <<ReviewFailedPrefix \o result.msg>>

\* C6: whichever way reading the diff file fails (missing, permission denied,
\* a directory, not UTF-8), main prints a read error to standard error and
\* returns 1 without calling review_diff and without a POST; without a filename
\* argument it prints the usage line, returns 1 and reads no file.
C6_ReadFailureReturnsOne ==
    /\ (caller = "main" /\ pc = "exit" /\ file.state = "raised")
          => /\ exit = Returned(1)
             /\ Len(stderr) = 1
             /\ HasPrefix(stderr[1], ReadErrorPrefix)
             /\ stdout = <<>>
             /\ calls = 0
             /\ posts = <<>>
    /\ (caller = "main" /\ pc = "exit" /\ Len(argv) < 2)
          => /\ exit = Returned(1)
             /\ stderr = <<UsageMsg>>
             /\ file = NotRead
             /\ calls = 0
             /\ posts = <<>>

\* C7: for every diff text d, build_prompt(d) holds d as a contiguous run of
\* characters, untruncated, and holds the four section headings.
C7_PromptHoldsDiffAndHeadings ==
    pc = "built"
    => /\ Contains(prompt, d0)
       /\ Contains(prompt, HeadingSummary)
       /\ Contains(prompt, HeadingFiles)
       /\ Contains(prompt, HeadingRisks)
       /\ Contains(prompt, HeadingRecommendations)

C9_NonOkStatusFailsUnparsed ==
    /\ (response # NoResponse /\ response.status_code # 200 /\ pc # "check_status")
          => /\ result.kind = "raise"
             /\ result.cls = "AIReviewError"
             /\ Contains(result.msg, IntText(response.status_code))
             /\ response.status_code = 404 => Contains(result.msg, <<"4", "0", "4">>)
             /\ Contains(result.msg, response.text)
             /\ json_calls = 0
             /\ data = NotSet
             /\ message_content = NotSet
    /\ (\/ pc \in {"json", "extract", "normalize"}
        \/ json_calls > 0
        \/ data # NotSet
        \/ message_content # NotSet)
          => response.status_code = 200

C9_Witness ==
    /\ response.status_code = 404
    /\ response.text = BodyText
    /\ result.kind = "raise"
    /\ json_calls = 0
    /\ pc = "exit"

\* the text a content part contributes: the string form of its text entry when
\* it is a mapping with one, else its own string form
Contribution(part) ==
    IF HasEntry(part, KeyText) THEN PyStrOf(Entry(part, KeyText)) ELSE PyStrOf(part)

\* where the i-th of the texts cs starts when single separators lie between them
RECURSIVE StartOf(_, _)
StartOf(cs, i) == IF i = 1 THEN 1 ELSE StartOf(cs, i - 1) + Len(cs[i - 1]) + 1

\* C10: when the content of a status-200 response is a sequence of n parts,
\* review_diff returns their n contributions in order with one newline between
\* neighbours and none before or after (the empty text for no parts); when the
\* content is a string, review_diff returns it unchanged.
C10_PartsJoinedByNewlines ==
    (result.kind = "return" /\ message_content # NotSet)
    => /\ message_content.t = "str" => result.v = message_content.v
       /\ message_content.t = "list"
              => LET n == Len(message_content.v)
                     cs == [p \in 1..n |-> Contribution(message_content.v[p])]
                 IN  /\ n = 0 => result.v = <<>>
                     /\ n > 0 => Len(result.v) = StartOf(cs, n) + Len(cs[n]) - 1
                     /\ \A i \in 1..n :
                            SubSeq(result.v, StartOf(cs, i), StartOf(cs, i) + Len(cs[i]) - 1)
                                = cs[i]
                     /\ \A i \in 1..(n - 1) : result.v[StartOf(cs, i) + Len(cs[i])] = "\n"
       /\ response.text = BodyParts => result.v = <<"A", "\n", "B">>

C10_Witness ==
    /\ response.status_code = 200
    /\ response.text = BodyMixedParts
    /\ message_content.t = "list"
    /\ Len(message_content.v) = 4
    /\ result = Returned(<<"7", "\n", "x", "\n", "y", "\n", "{", "'", "t", "y", "p", "e", "'",
                           ":", " ", "'", "t", "'", "}", "\n", "N", "o", "n", "e">>)

====
